---- MODULE Spec2Model ----
(***************************************************************************)
(* A model of mdbook-epub: the EPUB generator (src/generator.rs) and the   *)
(* asset discovery (src/resources.rs).                                     *)
(*                                                                         *)
(* Text is modelled as a sequence of tokens.  A token is a string that the *)
(* regular expressions of the program treat as a unit; the tokens that     *)
(* hold a '>' or a '"' are listed below, because the character classes     *)
(* [^>] and [^"] are what the two expressions are made of.                 *)
(***************************************************************************)
EXTENDS Integers, Sequences, FiniteSets, TLC

VARIABLES
    htmls,      \* fix_html: the input, then the result of each application
    src,        \* assets_in_markdown: the events Parser::new(src) yields
    parent_dir, \* assets_in_markdown: the chapter's directory
    found,      \* assets_in_markdown: the links of the first loop
    ret,        \* assets_in_markdown: the value returned, NotCalled before
    ctx,        \* Generator: the RenderContext, the Config and the disk's stylesheets
    pc,         \* Generator::generate: the stage to run next, or how it ended
    builder,    \* the calls the EpubBuilder has received, in order
    assets,     \* additional_assets: the value resources::find returned
    result      \* Generator::generate: the value returned, NotCalled before

vars == <<htmls, src, parent_dir, found, ret, ctx, pc, builder, assets, result>>

asset_vars == <<src, parent_dir, found, ret>>
gen_vars == <<ctx, pc, builder, assets, result>>

----------------------------------------------------------------------------
(* Bounds of the model.                                                    *)

\* tokens of an arbitrary HTML input of fix_html
MaxHtmlLen == 5
\* pieces of an HTML input assembled from HtmlPieces
MaxHtmlPieces == 2
\* applications of fix_html to one input
MaxFix == 2
\* pieces of an arbitrary raw-HTML fragment
MaxFragmentPieces == 4
\* whole tags of a raw-HTML fragment
MaxFragmentTags == 2
\* events of one chapter's markdown
MaxEvents == 3
\* book items of a chapter tree
MaxItems == 4
\* book items of a book whose chapters hold references
MaxFindItems == 3
\* book items of the books a whole run of generate is followed on
MaxGenItems == 2
\* additional stylesheets of the configuration
MaxCss == 2

----------------------------------------------------------------------------
(* Sequences.                                                              *)

SeqsUpTo(S, n) == UNION {[1..k -> S] : k \in 0..n}

RECURSIVE Flatten(_)
Flatten(ss) == IF ss = <<>> THEN <<>> ELSE Head(ss) \o Flatten(Tail(ss))

Last(s) == s[Len(s)]

----------------------------------------------------------------------------
(* generator.rs: fix_html / fix_img.                                       *)
(*   IMG = (?P<img><img\s+[^>]*/>)   replace_all(html, "<p>$img</p>")      *)

ImgOpen == "<img"
Space == " "
Slash == "/"
Gt == ">"
Text == "a"
POpen == "<p>"
PClose == "</p>"

\* the tokens that hold the character '>'
HasGt(t) == t \in {Gt, POpen, PClose}

\* The index of the '>' that ends a match of IMG starting at token s, or 0.
\* After "<img", \s+ needs a white space; [^>]* cannot cross a '>', so the
\* match ends at the first '>' after s, and only if "/" stands before it.
ImgMatchEnd(h, s) ==
    IF s + 3 > Len(h) \/ h[s] # ImgOpen \/ h[s + 1] # Space THEN 0
    ELSE LET stops == {k \in (s + 2)..Len(h) : HasGt(h[k])}
         IN IF stops = {} THEN 0
            ELSE LET e == CHOOSE k \in stops : \A j \in stops : k <= j
                 IN IF h[e] = Gt /\ e >= s + 3 /\ h[e - 1] = Slash THEN e ELSE 0

\* Regex::replace_all: the non-overlapping matches from left to right, each
\* replaced by "<p>" + match + "</p>", the text between them kept.
RECURSIVE ReplaceAllImg(_, _)
ReplaceAllImg(h, i) ==
    IF i > Len(h) THEN <<>>
    ELSE LET e == ImgMatchEnd(h, i)
         IN IF e = 0 THEN <<h[i]>> \o ReplaceAllImg(h, i + 1)
            ELSE <<POpen>> \o SubSeq(h, i, e) \o <<PClose>>
                     \o ReplaceAllImg(h, e + 1)

\* a fixer that leaves alone a match that already stands inside a <p>
fix_img_skip_wrapped(html) ==
    LET RECURSIVE Skip(_)
        Skip(i) ==
            IF i > Len(html) THEN <<>>
            ELSE LET e == ImgMatchEnd(html, i)
                 IN IF e = 0 THEN <<html[i]>> \o Skip(i + 1)
                    ELSE IF i > 1 /\ html[i - 1] = POpen
                                /\ e < Len(html) /\ html[e + 1] = PClose
                         THEN SubSeq(html, i, e) \o Skip(e + 1)
                         ELSE <<POpen>> \o SubSeq(html, i, e) \o <<PClose>> \o Skip(e + 1)
    IN Skip(1)

fix_img(html) == ReplaceAllImg(html, 1)

fix_html(html) == fix_img(html)

\* the matches of IMG in h, counted as replace_all finds them
RECURSIVE ImgMatches(_, _)
ImgMatches(h, i) ==
    IF i > Len(h) THEN 0
    ELSE LET e == ImgMatchEnd(h, i)
         IN IF e = 0 THEN ImgMatches(h, i + 1) ELSE 1 + ImgMatches(h, e + 1)

HtmlTokens == {ImgOpen, Space, Slash, Gt, Text, POpen, PClose}

SelfClosingImg == <<ImgOpen, Space, Text, Slash, Gt>>

HtmlPieces ==
    { SelfClosingImg,
      <<ImgOpen, Space, Slash, Gt>>,
      <<POpen>> \o SelfClosingImg \o <<PClose>>,
      <<ImgOpen, Space, Text, Gt>>,
      <<ImgOpen, Slash, Gt>>,
      <<Text>> }

\* arbitrary inputs: up to `len` tokens, and up to `pieces` pieces
HtmlInputs(len, pieces) ==
    SeqsUpTo(HtmlTokens, len) \cup {Flatten(ps) : ps \in SeqsUpTo(HtmlPieces, pieces)}

NotCalled == [ok |-> FALSE, err |-> "not called"]

NoCtx == [book |-> <<>>]

IdleFix == htmls = <<>>
IdleAssets == src = <<>> /\ parent_dir = <<>> /\ found = <<>> /\ ret = NotCalled
IdleGen ==
    /\ ctx = NoCtx /\ pc = "idle" /\ builder = <<>>
    /\ assets = NotCalled /\ result = NotCalled

InitFix ==
    htmls \in {<<h>> : h \in HtmlInputs(MaxHtmlLen, MaxHtmlPieces)} /\ IdleAssets /\ IdleGen

FixHtml ==
    /\ htmls # <<>>
    /\ Len(htmls) <= MaxFix
    /\ htmls' = Append(htmls, fix_html(Last(htmls)))
    /\ UNCHANGED <<asset_vars, gen_vars>>

NextFix == FixHtml

SpecFix == InitFix /\ [][NextFix]_vars

----------------------------------------------------------------------------
(* resources.rs: the links of a raw-HTML event.                            *)
(*   HTML_LINK = (<(?:a|img) [^>]*?(?:src|href)=")([^"]+?)"                *)

AOpen == "<a"
SrcEq == "src="
HrefEq == "href="
Quote == "\""

\* The index of the '"' closing the value of the attribute at a, or 0: the
\* attribute name is followed by '"', and [^"]+? takes at least one token
\* up to the next '"'.
ValueEnd(h, a) ==
    IF a + 1 > Len(h) \/ h[a + 1] # Quote THEN 0
    ELSE LET quotes == {k \in (a + 2)..Len(h) : h[k] = Quote}
         IN IF quotes = {} THEN 0
            ELSE LET q == CHOOSE k \in quotes : \A j \in quotes : k <= j
                 IN IF q >= a + 3 THEN q ELSE 0

\* The attributes a match starting at the tag at s can use: [^>]*? reaches
\* them without crossing a '>', and their value is closed.
LinkAttrs(h, s) ==
    IF s + 1 > Len(h) \/ h[s] \notin {AOpen, ImgOpen} \/ h[s + 1] # Space THEN {}
    ELSE {a \in (s + 2)..Len(h) :
            /\ h[a] \in {SrcEq, HrefEq}
            /\ \A j \in (s + 2)..(a - 1) : ~HasGt(h[j])
            /\ ValueEnd(h, a) # 0}

\* group 2 of the match that starts at the tag at s: the lazy [^>]*? stops
\* at the first attribute that completes a match
LinkValue(h, s) ==
    LET as == LinkAttrs(h, s)
        a == CHOOSE x \in as : \A y \in as : x <= y
    IN SubSeq(h, a + 2, ValueEnd(h, a) - 1)

LinkStarts(h) == {s \in 1..Len(h) : LinkAttrs(h, s) # {}}

\* every tag of the fragment that has a match, not the first one alone
HtmlLinkEveryTag(h) ==
    LET RECURSIVE Collect(_)
        Collect(i) ==
            IF i > Len(h) THEN <<>>
            ELSE IF i \in LinkStarts(h) THEN <<LinkValue(h, i)>> \o Collect(i + 1)
            ELSE Collect(i + 1)
    IN Collect(1)

\* HTML_LINK.captures(html).get(2): group 2 of the leftmost match, as a
\* sequence of at most one link.
HtmlLink(h) ==
    IF LinkStarts(h) = {} THEN <<>>
    ELSE LET s == CHOOSE x \in LinkStarts(h) : \A y \in LinkStarts(h) : x <= y
         IN <<LinkValue(h, s)>>

----------------------------------------------------------------------------
(* resources.rs: paths and the file system.                                *)
(* A path component is a sequence of tokens without "/"; a PathBuf is its  *)
(* components from the root and whether it ends in a separator.            *)

\* str::split("/"): one more segment than there are separators
RECURSIVE Split(_)
Split(link) ==
    IF \A i \in 1..Len(link) : link[i] # Slash THEN <<link>>
    ELSE LET k == CHOOSE i \in 1..Len(link) :
                      link[i] = Slash /\ \A j \in 1..(i - 1) : link[j] # Slash
         IN <<SubSeq(link, 1, k - 1)>> \o Split(SubSeq(link, k + 1, Len(link)))

PathBuf(components) == [comps |-> components, sep |-> FALSE]

\* PathBuf::push of a relative segment: an empty one only adds a separator
Push(p, seg) ==
    IF seg = <<>> THEN [p EXCEPT !.sep = TRUE]
    ELSE [comps |-> Append(p.comps, seg), sep |-> FALSE]

RECURSIVE PushAll(_, _)
PushAll(p, segs) ==
    IF segs = <<>> THEN p ELSE PushAll(Push(p, Head(segs)), Tail(segs))

\* PathBuf::pop
Pop(p) ==
    IF p.comps = <<>> THEN p
    ELSE [comps |-> SubSeq(p.comps, 1, Len(p.comps) - 1), sep |-> FALSE]

Name(s) == <<s>>

RootDir == <<Name("book")>>
SrcDir == <<Name("book"), Name("src")>>
SubDir == <<Name("book"), Name("src"), Name("sub")>>

\* the directories and the regular files of the disk (tests/dummy/src of the
\* unit test, and one file beside the source directory)
DiskDirs == {<<>>, RootDir, SrcDir, SubDir}

DiskFiles ==
    { Append(SrcDir, Name("rust-logo.png")),
      Append(SrcDir, Name("reddit.svg")),
      Append(SubDir, Name("reddit.svg")),
      Append(RootDir, Name("outside.png")) }

NoPath == <<Name("?")>>

\* Path::canonicalize: every component is looked up in turn, "." and ".."
\* in a directory only; a path ending in a separator must be a directory.
\* NoPath when the call fails.
RECURSIVE Walk(_, _)
Walk(cur, comps) ==
    IF comps = <<>> THEN cur
    ELSE IF cur \notin DiskDirs THEN NoPath
    ELSE LET c == Head(comps)
             nxt == IF c = Name(".") THEN cur
                    ELSE IF c = Name("..")
                         THEN (IF cur = <<>> THEN cur ELSE SubSeq(cur, 1, Len(cur) - 1))
                         ELSE Append(cur, c)
         IN IF nxt \in DiskDirs \cup DiskFiles THEN Walk(nxt, Tail(comps)) ELSE NoPath

Canonicalize(p) ==
    LET c == Walk(<<>>, p.comps)
    IN IF p.sep /\ c \notin DiskDirs THEN NoPath ELSE c

IsFile(path) == path \in DiskFiles

IsPrefix(a, b) == Len(a) <= Len(b) /\ SubSeq(b, 1, Len(a)) = a

----------------------------------------------------------------------------
(* resources.rs: assets_in_markdown.                                       *)

Ok(v) == [ok |-> TRUE, val |-> v]
Err(e) == [ok |-> FALSE, err |-> e]

Image(dest) == [tag |-> "Image", body |-> dest]
Link(dest) == [tag |-> "Link", body |-> dest]
Html(h) == [tag |-> "Html", body |-> h]
OtherText == [tag |-> "Text", body |-> <<>>]

EventLinksAnyLink(event) ==
    IF event.tag \in {"Image", "Link"} THEN <<event.body>>
    ELSE IF event.tag = "Html" THEN HtmlLink(event.body)
    ELSE <<>>

\* the first loop: what one event adds to `found`
EventLinks(event) ==
    IF event.tag = "Image" THEN <<event.body>>
    ELSE IF event.tag = "Html" THEN HtmlLink(event.body)
    ELSE <<>>

RECURSIVE FoundLinks(_)
FoundLinks(events) ==
    IF events = <<>> THEN <<>>
    ELSE EventLinks(Head(events)) \o FoundLinks(Tail(events))

\* the second loop, one link: parent_dir joined with the segments of the
\* link, canonicalized, and checked to be a regular file
ResolveLink(dir, link) ==
    LET filename == Canonicalize(PushAll(PathBuf(dir), Split(link)))
    IN IF filename = NoPath THEN Err("Unable to fetch the canonical path")
       ELSE IF ~IsFile(filename) THEN Err("Asset was not a file")
       ELSE Ok(filename)

RECURSIVE ResolveAll(_, _, _)
ResolveAll(dir, links, acc) ==
    IF links = <<>> THEN Ok(acc)
    ELSE LET r == ResolveLink(dir, Head(links))
         IN IF ~r.ok THEN r
            ELSE ResolveAll(dir, Tail(links), Append(acc, r.val))

assets_in_markdown(events, dir) == ResolveAll(dir, FoundLinks(events), <<>>)

\* the links the events of a chapter are drawn from
LinkNames ==
    { <<"rust-logo.png">>, <<".", Slash, "rust-logo.png">>,
      <<"reddit.svg">>, <<"sub", Slash, "reddit.svg">>,
      <<"..", Slash, "rust-logo.png">>, <<"..", Slash, "outside.png">>,
      <<"to", Slash, "nowhere">>, <<"sub">>, <<"rust-logo.png", Slash>> }

ImgTag(attr, link) == <<ImgOpen, Space, attr, Quote>> \o link \o <<Quote, Gt>>
ATag(attr, link) == <<AOpen, Space, attr, Quote>> \o link \o <<Quote, Gt>>

\* the raw-HTML fragments of the events of a chapter
Fragments ==
    { ImgTag(SrcEq, <<"reddit.svg">>),
      ATag(HrefEq, <<"rust-logo.png">>),
      ImgTag(SrcEq, <<"reddit.svg">>) \o ATag(HrefEq, <<"to", Slash, "nowhere">>),
      <<POpen, Text, PClose>> }

FragmentPieces ==
    { <<AOpen, Space>>, <<ImgOpen, Space>>, <<ImgOpen>>, <<SrcEq, Quote>>,
      <<HrefEq, Quote>>, <<HrefEq>>, <<Quote>>, <<Gt>>, <<"reddit.svg">> }

FragmentTags ==
    {ImgTag(at, l) : at \in {SrcEq, HrefEq}, l \in {<<"reddit.svg">>, <<"rust-logo.png">>}}
        \cup {ATag(at, l) : at \in {SrcEq, HrefEq}, l \in {<<"reddit.svg">>, <<"rust-logo.png">>}}
        \cup {<<ImgOpen, Space, Text, Gt>>, <<AOpen, Space, SrcEq, Quote, Quote, Gt>>}

\* arbitrary fragments: up to `pieces` pieces, and up to `tags` whole tags
FragmentInputs(pieces, tags) ==
    {Flatten(ps) : ps \in SeqsUpTo(FragmentPieces, pieces)}
        \cup {Flatten(ts) : ts \in SeqsUpTo(FragmentTags, tags)}

Events ==
    {Image(l) : l \in LinkNames}
        \cup {Link(<<"to", Slash, "nowhere">>), Link(<<"rust-logo.png">>)}
        \cup {Html(h) : h \in Fragments} \cup {OtherText}

InitAssets ==
    /\ \/ src \in SeqsUpTo(Events, MaxEvents) /\ parent_dir \in {SrcDir, SubDir}
       \/ src \in {<<Html(h)>> : h \in FragmentInputs(MaxFragmentPieces, MaxFragmentTags)} /\ parent_dir = SrcDir
    /\ found = <<>>
    /\ ret = NotCalled
    /\ IdleFix /\ IdleGen

AssetsInMarkdown ==
    /\ parent_dir # <<>>
    /\ ret = NotCalled
    /\ found' = FoundLinks(src)
    /\ ret' = assets_in_markdown(src, parent_dir)
    /\ UNCHANGED <<htmls, src, parent_dir, gen_vars>>

NextAssets == AssetsInMarkdown

SpecAssets == InitAssets /\ [][NextAssets]_vars

----------------------------------------------------------------------------
(* The book of the RenderContext: ctx.book.                                *)
(* items[i] is a BookItem; parent = 0 for an item of book.sections, else   *)
(* the index of the chapter whose sub_items holds it.  Items of one parent *)
(* stand in document order by index.                                       *)

NoNumber == [some |-> FALSE, n |-> <<>>]
SomeNumber(n) == [some |-> TRUE, n |-> n]

IsChapter(item) == item.kind = "Chapter"

\* ch.sub_items, as indices
sub_items(book, i) ==
    LET kids == {j \in 1..Len(book) : book[j].parent = i}
        RECURSIVE Sorted(_)
        Sorted(S) ==
            IF S = {} THEN <<>>
            ELSE LET m == CHOOSE x \in S : \A y \in S : x <= y
                 IN <<m>> \o Sorted(S \ {m})
    IN Sorted(kids)

\* book.sections, as indices
sections(book) == sub_items(book, 0)

\* Book::iter(): every item of the tree, depth first, a chapter before its
\* sub_items
RECURSIVE DepthFirst(_, _)
DepthFirst(book, ids) ==
    IF ids = <<>> THEN <<>>
    ELSE <<Head(ids)>> \o DepthFirst(book, sub_items(book, Head(ids)))
             \o DepthFirst(book, Tail(ids))

\* the items of book.sections alone, without what lies below them
IterTopLevel(book) == sections(book)

Iter(book) == DepthFirst(book, sections(book))

\* the chapters among the items Iter yields: `if let BookItem::Chapter`
RECURSIVE ChaptersOf(_, _)
ChaptersOf(book, ids) ==
    IF ids = <<>> THEN <<>>
    ELSE (IF IsChapter(book[Head(ids)]) THEN <<Head(ids)>> ELSE <<>>)
             \o ChaptersOf(book, Tail(ids))

\* The books the loader builds: a numbered chapter carries the number of its
\* parent and its rank among the numbered chapters beside it; a chapter
\* without a number (a prefix or suffix chapter) and a separator have no
\* sub_items.
Shapes(n) == {p \in [1..n -> 0..n] : \A i \in 1..n : p[i] < i}

ItemKinds == {"Numbered", "Unnumbered", "Separator"}

WellFormed(p, k) ==
    \A i \in DOMAIN p :
        /\ p[i] # 0 => k[p[i]] = "Numbered"
        /\ k[i] = "Unnumbered" => p[i] = 0

RECURSIVE NumberOf(_, _, _)
NumberOf(p, k, i) ==
    LET rank == Cardinality({j \in 1..i : p[j] = p[i] /\ k[j] = "Numbered"})
    IN (IF p[i] = 0 THEN <<>> ELSE NumberOf(p, k, p[i])) \o <<rank>>

Md == ".md"
HtmlExt == ".html"

\* a chapter source: the directory of the chapter below src/, and its events
ChapterSource(dir, events) == [dir |-> dir, content |-> events]

MkItem(p, k, srcs, i) ==
    [ parent |-> p[i],
      kind |-> IF k[i] = "Separator" THEN "Separator" ELSE "Chapter",
      number |-> IF k[i] = "Numbered" THEN SomeNumber(NumberOf(p, k, i)) ELSE NoNumber,
      name |-> <<"Chapter", ToString(i)>>,
      path |-> srcs[i].dir \o <<"ch", ToString(i), Md>>,
      content |-> srcs[i].content ]

DefaultSource(sources) ==
    CHOOSE x \in sources : \A y \in sources : Len(x.content) <= Len(y.content)

Books(max, kinds, sources) ==
    UNION { UNION { UNION {
        { [i \in 1..n |-> MkItem(p, k, srcs, i)] :
            srcs \in {ss \in [1..n -> sources] :
                        \A i \in 1..n : k[i] = "Separator" => ss[i] = DefaultSource(sources)} }
        : k \in {kk \in [1..n -> kinds] : WellFormed(p, kk)} }
        : p \in Shapes(n) }
        : n \in 0..max }

----------------------------------------------------------------------------
(* resources.rs: find and Asset.                                           *)

Panic == [ok |-> FALSE, err |-> "panicked"]

\* mime_guess::from_path(..).first_or_octet_stream(), by the extension
MimeGuess(path) ==
    LET file == Last(Last(path))
    IN IF file \in {"rust-logo.png", "outside.png"} THEN "image/png"
       ELSE IF file = "reddit.svg" THEN "image/svg+xml"
       ELSE "application/octet-stream"

\* Asset::new(relative, &full_filename)
Asset(filename, absolute_location) ==
    [ location_on_disk |-> absolute_location,
      filename |-> filename,
      mimetype |-> MimeGuess(absolute_location) ]

\* the directory of a chapter: src_dir joined with the segments of ch.path,
\* the file name popped
ChapterDir(src_dir, ch) == Pop(PushAll(PathBuf(src_dir), Split(ch.path))).comps

\* the inner loop of find: strip_prefix(&src_dir).unwrap() panics for a
\* file that does not lie below src_dir
RECURSIVE PushAssets(_, _, _)
PushAssets(src_dir, paths, acc) ==
    IF paths = <<>> THEN Ok(acc)
    ELSE LET full_filename == Head(paths)
         IN IF ~IsPrefix(src_dir, full_filename) THEN Panic
            ELSE PushAssets(src_dir, Tail(paths),
                     Append(acc, Asset(SubSeq(full_filename, Len(src_dir) + 1,
                                              Len(full_filename)),
                                       full_filename)))

\* the outer loop of find, over the chapters Book::iter() yields
RECURSIVE FindIn(_, _, _, _)
FindIn(src_dir, book, chapters, acc) ==
    IF chapters = <<>> THEN Ok(acc)
    ELSE LET ch == book[Head(chapters)]
             fnd == assets_in_markdown(ch.content, ChapterDir(src_dir, ch))
         IN IF ~fnd.ok THEN fnd
            ELSE LET pushed == PushAssets(src_dir, fnd.val, acc)
                 IN IF ~pushed.ok THEN pushed
                    ELSE FindIn(src_dir, book, Tail(chapters), pushed.val)

find(c) ==
    LET src_dir == Canonicalize(Push(PathBuf(c.root), c.src))
    IN IF src_dir = NoPath THEN Err("Unable to canonicalize the src directory")
       ELSE FindIn(src_dir, c.book, ChaptersOf(c.book, Iter(c.book)), <<>>)

----------------------------------------------------------------------------
(* generator.rs: the content unit of a chapter.                            *)

Dot == "."

\* Display of a SectionNumber: every component followed by "."
RECURSIVE NumberText(_)
NumberText(n) ==
    IF n = <<>> THEN <<>> ELSE <<ToString(Head(n)), Dot>> \o NumberText(Tail(n))

\* format!("{}", ch): the number and a space, when there is one, and the name
Display(ch) ==
    (IF ch.number.some THEN NumberText(ch.number.n) \o <<Space>> ELSE <<>>) \o ch.name

\* path.with_extension("html").display().to_string()
WithExtensionHtml(path) ==
    IF path # <<>> /\ Last(path) = Md
    THEN SubSeq(path, 1, Len(path) - 1) \o <<HtmlExt>>
    ELSE path \o <<HtmlExt>>

\* mdbook::utils::render_markdown, an outside pure function: an image
\* becomes a self-closing img element, raw HTML is passed through
RECURSIVE render_markdown(_)
render_markdown(events) ==
    IF events = <<>> THEN <<>>
    ELSE LET e == Head(events)
             out == IF e.tag = "Image"
                    THEN <<ImgOpen, Space, SrcEq, Quote>> \o e.body
                             \o <<Quote, Space, Slash, Gt>>
                    ELSE IF e.tag = "Html" THEN e.body
                    ELSE <<Text>>
         IN out \o render_markdown(Tail(events))

\* the number of components itself
LevelIsDepth(ch) == IF ch.number.some THEN Len(ch.number.n) ELSE 0

\* ch.number.as_ref().map(|n| n.len() as i32 - 1).unwrap_or(0)
Level(ch) == IF ch.number.some THEN Len(ch.number.n) - 1 ELSE 0

TocElement(path, title) == [path |-> path, title |-> title]

\* the first pass over ch.sub_items: one TocElement for each chapter
RECURSIVE TocOf(_, _)
TocOf(book, ids) ==
    IF ids = <<>> THEN <<>>
    ELSE LET sub == book[Head(ids)]
         IN (IF IsChapter(sub)
             THEN <<TocElement(WithExtensionHtml(sub.path), Display(sub))>>
             ELSE <<>>) \o TocOf(book, Tail(ids))

\* an entry for every chapter below the chapter, at any depth
ChildrenAllDescendants(book, i) ==
    TocOf(book, DepthFirst(book, sub_items(book, i)))

Children(book, i) == TocOf(book, sub_items(book, i))

\* the EpubContent add_chapter hands to builder.add_content
ContentUnit(book, i) ==
    LET ch == book[i]
    IN [ op |-> "add_content",
         ok |-> TRUE,
         path |-> WithExtensionHtml(ch.path),
         title |-> Display(ch),
         level |-> Level(ch),
         children |-> Children(book, i),
         body |-> [template |-> "index",
                   content |-> fix_html(render_markdown(ch.content))] ]

----------------------------------------------------------------------------
(* generator.rs: generate_stylesheet.                                      *)

DEFAULT_CSS == <<"d1", "d2">>

\* the stylesheet files of the disk: OpenFails cannot be opened, ReadFails
\* (a directory) opens and fails to read
CssBytes(path) ==
    IF path = "a.css" THEN <<"a1">>
    ELSE IF path = "b.css" THEN <<"b1", "b2">>
    ELSE <<>>

OpenFails(path) == path = "missing.css"
ReadFails(path) == path = "dir.css"

CssNames == {"a.css", "b.css", "empty.css", "missing.css", "dir.css"}

RECURSIVE ReadAll(_, _)
ReadAll(paths, stylesheet) ==
    IF paths = <<>> THEN Ok(stylesheet)
    ELSE IF OpenFails(Head(paths)) THEN Err("Unable to open")
    ELSE IF ReadFails(Head(paths)) THEN Err("Error reading stylesheet")
    ELSE ReadAll(Tail(paths), stylesheet \o CssBytes(Head(paths)))

\* the built-in stylesheet appended after the additional ones
generate_stylesheet_default_last(c) ==
    LET r == ReadAll(c.additional_css, <<>>)
    IN IF r.ok /\ c.use_default_css THEN Ok(r.val \o DEFAULT_CSS) ELSE r

generate_stylesheet(c) ==
    ReadAll(c.additional_css, IF c.use_default_css THEN DEFAULT_CSS ELSE <<>>)

----------------------------------------------------------------------------
(* generator.rs: Generator::generate, one action for each stage.           *)

Call(op, args) == [op |-> op, ok |-> TRUE, args |-> args]

\* the first k calls succeed; when there are more, the next one fails and
\* is the last the builder receives
Attempt(calls, k) ==
    [j \in 1..(IF k < Len(calls) THEN k + 1 ELSE k) |->
        [calls[j] EXCEPT !.ok = (j <= k)]]

RECURSIVE Join(_, _)
Join(strs, sep) ==
    IF strs = <<>> THEN <<>>
    ELSE IF Len(strs) = 1 THEN Head(strs)
    ELSE Head(strs) \o sep \o Join(Tail(strs), sep)

\* the builder.metadata calls of populate_metadata
MetadataCalls(c) ==
    <<Call("metadata", <<"generator", <<"mdbook-epub">>>>)>>
        \o (IF c.title.some THEN <<Call("metadata", <<"title", c.title.n>>)>> ELSE <<>>)
        \o (IF c.description.some
            THEN <<Call("metadata", <<"description", c.description.n>>)>> ELSE <<>>)
        \o (IF c.authors # <<>>
            THEN <<Call("metadata", <<"author", Join(c.authors, <<",", Space>>)>>)>>
            ELSE <<>>)

\* an error that is recorded while the run goes on to the last stage
FailSwallowed(e) ==
    /\ pc' = "serialize"
    /\ result' = Err(e)

\* the `?` of generate: the error is returned and no later stage runs
Fail(e) ==
    /\ pc' = "failed"
    /\ result' = Err(e)

PopulateMetadata ==
    /\ pc = "metadata"
    /\ \E k \in 0..Len(MetadataCalls(ctx)) :
        /\ builder' = builder \o Attempt(MetadataCalls(ctx), k)
        /\ IF k = Len(MetadataCalls(ctx))
           THEN pc' = "chapters" /\ UNCHANGED result
           ELSE Fail("metadata")
    /\ UNCHANGED <<htmls, asset_vars, ctx, assets>>

ChaptersToAdd(book) == ChaptersOf(book, Iter(book))

\* generate_chapters: add_chapter for the chapters Book::iter() yields;
\* hbs.render or builder.add_content can fail for any of them
GenerateChapters ==
    /\ pc = "chapters"
    /\ LET chs == ChaptersToAdd(ctx.book)
           units == [j \in 1..Len(chs) |-> ContentUnit(ctx.book, chs[j])]
       IN \E k \in 0..Len(units), how \in {"render", "add_content"} :
            /\ k = Len(units) => how = "add_content"
            /\ builder' = builder \o
                   (IF how = "render" THEN SubSeq(units, 1, k) ELSE Attempt(units, k))
            /\ IF k = Len(units)
               THEN pc' = "stylesheet" /\ UNCHANGED result
               ELSE Fail(how)
    /\ UNCHANGED <<htmls, asset_vars, ctx, assets>>

\* embed_stylesheets
EmbedStylesheets ==
    /\ pc = "stylesheet"
    /\ LET stylesheet == generate_stylesheet(ctx)
       IN IF ~stylesheet.ok
          THEN Fail("Unable to generate stylesheet") /\ UNCHANGED builder
          ELSE \E ok \in BOOLEAN :
                /\ builder' = builder \o Attempt(<<Call("stylesheet", stylesheet.val)>>,
                                                 IF ok THEN 1 ELSE 0)
                /\ IF ok THEN pc' = "assets" /\ UNCHANGED result ELSE Fail("stylesheet")
    /\ UNCHANGED <<htmls, asset_vars, ctx, assets>>

Backslash == "\\"

\* str::replace(&filename, "\\", "/") of asset.filename.to_str()
ResourceName(filename) ==
    LET str == Join(filename, <<Slash>>)
    IN [i \in 1..Len(str) |-> IF str[i] = Backslash THEN Slash ELSE str[i]]

\* the builder.add_resource call of load_asset
LoadAsset(asset) ==
    [ op |-> "add_resource", ok |-> TRUE,
      filename |-> ResourceName(asset.filename),
      location |-> asset.location_on_disk,
      mimetype |-> asset.mimetype ]

\* additional_assets: find, then load_asset for each asset; File::open or
\* builder.add_resource can fail for any of them
AdditionalAssets ==
    /\ pc = "assets"
    /\ assets' = find(ctx)
    /\ IF assets' = Panic
       THEN pc' = "panicked" /\ UNCHANGED <<builder, result>>
       ELSE IF ~assets'.ok
       THEN Fail("Inspecting the book for additional assets failed") /\ UNCHANGED builder
       ELSE LET loads == [j \in 1..Len(assets'.val) |-> LoadAsset(assets'.val[j])]
            IN \E k \in 0..Len(loads), how \in {"open", "add_resource"} :
                 /\ k = Len(loads) => how = "add_resource"
                 /\ builder' = builder \o
                        (IF how = "open" THEN SubSeq(loads, 1, k) ELSE Attempt(loads, k))
                 /\ IF k = Len(loads)
                    THEN pc' = "serialize" /\ UNCHANGED result
                    ELSE Fail("Couldn't load")
    /\ UNCHANGED <<htmls, asset_vars, ctx>>

\* self.builder.generate(writer)
BuilderGenerate ==
    /\ pc = "serialize"
    /\ \E ok \in BOOLEAN :
        /\ builder' = builder \o Attempt(<<Call("generate", <<>>)>>, IF ok THEN 1 ELSE 0)
        /\ IF ok THEN pc' = "done" /\ result' = Ok(<<>>) ELSE Fail("generate")
    /\ UNCHANGED <<htmls, asset_vars, ctx, assets>>

NextGen ==
    \/ PopulateMetadata
    \/ GenerateChapters
    \/ EmbedStylesheets
    \/ AdditionalAssets
    \/ BuilderGenerate

----------------------------------------------------------------------------
(* The inputs of Generator::generate.                                      *)

NoText == [some |-> FALSE, n |-> <<>>]
SomeText(t) == [some |-> TRUE, n |-> t]

Metadata(title, description, authors) ==
    [title |-> title, description |-> description, authors |-> authors]

NoMetadata == Metadata(NoText, NoText, <<>>)

Metadatas ==
    { NoMetadata,
      Metadata(SomeText(<<"T">>), NoText, << <<"A">> >>),
      Metadata(SomeText(<<"T">>), SomeText(<<"D">>), << <<"A">>, <<"B">> >>) }

Config(use_default_css, additional_css) ==
    [use_default_css |-> use_default_css, additional_css |-> additional_css]

Configs(max) == {Config(d, a) : d \in BOOLEAN, a \in SeqsUpTo(CssNames, max)}

Context(book, meta, config, src_name) ==
    [ root |-> RootDir, src |-> src_name, book |-> book,
      title |-> meta.title, description |-> meta.description, authors |-> meta.authors,
      use_default_css |-> config.use_default_css,
      additional_css |-> config.additional_css ]

NoEvents == ChapterSource(<<>>, <<>>)

\* chapter sources with references: in src/ and in src/sub/
FindSources ==
    { NoEvents,
      ChapterSource(<<>>, <<Image(<<".", Slash, "rust-logo.png">>),
                            Link(<<"to", Slash, "nowhere">>),
                            Image(<<"reddit.svg">>)>>),
      ChapterSource(<<"sub", Slash>>, <<Image(<<"..", Slash, "rust-logo.png">>),
                                        Html(ImgTag(SrcEq, <<"reddit.svg">>))>>),
      ChapterSource(<<>>, <<Image(<<"rust-logo.png">>), Image(<<"missing.png">>)>>),
      ChapterSource(<<>>, <<Image(<<"..", Slash, "outside.png">>)>>) }

InitGen(contexts) ==
    /\ ctx \in contexts
    /\ pc = "metadata"
    /\ builder = <<>>
    /\ assets = NotCalled
    /\ result = NotCalled
    /\ IdleFix /\ IdleAssets

TreeContexts(max) ==
    {Context(b, NoMetadata, Config(TRUE, <<>>), Name("src")) :
        b \in Books(max, ItemKinds, {NoEvents})}

FindContexts(max) ==
    {Context(b, NoMetadata, Config(TRUE, <<>>), Name("src")) :
        b \in Books(max, {"Numbered", "Separator"}, FindSources)}
      \cup
    {Context(b, NoMetadata, Config(TRUE, <<>>), Name("nosrc")) :
        b \in Books(1, {"Numbered"}, FindSources)}

CssContexts(max) ==
    {Context(b, m, c, Name("src")) :
        b \in Books(1, {"Numbered"}, {NoEvents}), m \in Metadatas, c \in Configs(max)}

SpecTree == InitGen(TreeContexts(MaxItems)) /\ [][NextGen]_vars

SpecFind == InitGen(FindContexts(MaxFindItems)) /\ [][NextGen]_vars

SpecCss == InitGen(CssContexts(MaxCss)) /\ [][NextGen]_vars

SpecGen ==
    /\ InitGen(TreeContexts(MaxGenItems) \cup FindContexts(MaxGenItems)
                    \cup CssContexts(MaxCss))
    /\ [][NextGen]_vars

----------------------------------------------------------------------------
(* Claims about fix_html (SpecFix).                                        *)

\* C1 as stated: fix_html is idempotent, a second application returns what
\* the first one returned.
C1_Idempotent == Len(htmls) >= 3 => htmls[3] = htmls[2]

\* C1, amended: every application of fix_html wraps each self-closing img
\* match in one more <p> element and leaves the matches as they were, so a
\* later application returns what the one before it returned exactly when
\* the input holds no match.
C1_WrapsEveryTime ==
    \A k \in 2..Len(htmls) :
        LET n == ImgMatches(htmls[1], 1)
        IN /\ ImgMatches(htmls[k], 1) = n
           /\ Len(htmls[k]) = Len(htmls[k - 1]) + 2 * n
           /\ (k >= 3 => ((htmls[k] = htmls[k - 1]) <=> (n = 0)))

C1_Witness ==
    /\ Len(htmls) = 3
    /\ htmls[1] = SelfClosingImg \o SelfClosingImg
    /\ htmls[3] = <<POpen, POpen>> \o SelfClosingImg \o <<PClose, PClose>>
                      \o <<POpen, POpen>> \o SelfClosingImg \o <<PClose, PClose>>

----------------------------------------------------------------------------
(* Claims about assets_in_markdown (SpecAssets).                           *)

Called == ret # NotCalled

ImageEvents(events) == {i \in 1..Len(events) : events[i].tag = "Image"}
HtmlEvents(events) == {i \in 1..Len(events) : events[i].tag = "Html"}

Resolves(dir, link) ==
    LET target == Canonicalize(PushAll(PathBuf(dir), Split(link)))
    IN target # NoPath /\ IsFile(target)

\* the paths the claim expects: one for each image reference, one for the
\* link of a raw-HTML event, none for any other event
RECURSIVE ExpectedPaths(_, _)
ExpectedPaths(events, dir) ==
    IF events = <<>> THEN <<>>
    ELSE LET e == Head(events)
             here == IF e.tag = "Image"
                     THEN <<Canonicalize(PushAll(PathBuf(dir), Split(e.body)))>>
                     ELSE IF e.tag = "Html" /\ HtmlLink(e.body) # <<>>
                     THEN <<Canonicalize(PushAll(PathBuf(dir),
                                                 Split(HtmlLink(e.body)[1])))>>
                     ELSE <<>>
         IN here \o ExpectedPaths(Tail(events), dir)

HtmlLinksResolve ==
    \A i \in HtmlEvents(src) :
        HtmlLink(src[i].body) # <<>> => Resolves(parent_dir, HtmlLink(src[i].body)[1])

\* C4: when every image reference of a chapter resolves to a regular file,
\* assets_in_markdown returns one canonical path for each image reference, in
\* document order, duplicates kept; a markdown link adds no entry and is not
\* resolved, so a link to a missing target does not make the call fail (the
\* call fails only for the link of a raw-HTML event).
C4_OnePathPerImage ==
    (Called /\ \A i \in ImageEvents(src) : Resolves(parent_dir, src[i].body)) =>
        /\ ret.ok <=> HtmlLinksResolve
        /\ ret.ok => ret.val = ExpectedPaths(src, parent_dir)
        /\ (ret.ok /\ \A i \in HtmlEvents(src) : HtmlLink(src[i].body) = <<>>) =>
              Len(ret.val) = Cardinality(ImageEvents(src))

\* the markdown of the unit test find_images
C4_Witness ==
    /\ src = <<Image(<<".", Slash, "rust-logo.png">>), Link(<<"to", Slash, "nowhere">>),
               Image(<<"reddit.svg">>)>>
    /\ parent_dir = SrcDir
    /\ ret = Ok(<<Append(SrcDir, Name("rust-logo.png")), Append(SrcDir, Name("reddit.svg"))>>)

\* a match of HTML_LINK in h: a tag at s, an attribute at a, the closing
\* quote of its value at q
IsLinkMatch(h, s, a, q) ==
    /\ s + 2 <= a /\ a + 3 <= q /\ q <= Len(h)
    /\ h[s] \in {AOpen, ImgOpen} /\ h[s + 1] = Space
    /\ \A j \in (s + 2)..(a - 1) : ~HasGt(h[j])
    /\ h[a] \in {SrcEq, HrefEq} /\ h[a + 1] = Quote
    /\ \A j \in (a + 2)..(q - 1) : h[j] # Quote
    /\ h[q] = Quote

\* a match of the two forms the claim names: <a ... href="..."> and
\* <img ... src="...">
IsPairedMatch(h, s, a, q) ==
    /\ IsLinkMatch(h, s, a, q)
    /\ (h[s] = AOpen /\ h[a] = HrefEq) \/ (h[s] = ImgOpen /\ h[a] = SrcEq)

\* the positions a match can take: a tag, an attribute, a closing quote
Triples(h) ==
    {s \in 1..Len(h) : h[s] \in {AOpen, ImgOpen}}
        \X {a \in 1..Len(h) : h[a] \in {SrcEq, HrefEq}}
        \X {q \in 1..Len(h) : h[q] = Quote}

Earlier(t, u) == t[1] < u[1] \/ (t[1] = u[1] /\ t[2] < u[2])

\* the value of the first match among `matches`, as a sequence of at most
\* one link
FirstValue(h, matches) ==
    IF matches = {} THEN <<>>
    ELSE LET t == CHOOSE x \in matches : \A y \in matches : x = y \/ Earlier(x, y)
         IN <<SubSeq(h, t[2] + 2, t[3] - 1)>>

\* what the raw-HTML events add to `found`, and the rest
RECURSIVE FoundBy(_, _)
FoundBy(events, paired) ==
    IF events = <<>> THEN <<>>
    ELSE LET e == Head(events)
             h == e.body
             here == IF e.tag = "Image" THEN <<e.body>>
                     ELSE IF e.tag # "Html" THEN <<>>
                     ELSE FirstValue(h, {t \in Triples(h) :
                              IF paired THEN IsPairedMatch(h, t[1], t[2], t[3])
                              ELSE IsLinkMatch(h, t[1], t[2], t[3])})
         IN here \o FoundBy(Tail(events), paired)

\* C5 as stated: a raw-HTML event adds to the list the value of the first
\* <a ... href="..."> or <img ... src="..."> match of its fragment, and
\* nothing when the fragment has no such match.
C5_FirstPairedMatch == Called => found = FoundBy(src, TRUE)

\* C5, amended: a raw-HTML event adds at most one link to the list: the value
\* of the first match of a tag <a or <img followed by a src="..." or a
\* href="..." attribute, either attribute after either tag, and nothing when
\* the fragment has no match; a chapter that holds only <img src="reddit.svg">
\* gives the one link reddit.svg.
C5_FirstMatchEitherAttr ==
    Called =>
        /\ found = FoundBy(src, FALSE)
        /\ Len(found) <= Cardinality(ImageEvents(src)) + Cardinality(HtmlEvents(src))
        /\ src = <<Html(ImgTag(SrcEq, <<"reddit.svg">>))>> =>
              found = << <<"reddit.svg">> >> /\ ret.ok /\ Len(ret.val) = 1

\* two tags in one fragment: the link of the first one only
C5_Witness ==
    /\ Called
    /\ src = <<Html(ImgTag(SrcEq, <<"reddit.svg">>)
                        \o ATag(HrefEq, <<"rust-logo.png">>))>>
    /\ found = << <<"reddit.svg">> >>

----------------------------------------------------------------------------
(* Claims about Generator::generate (SpecGen, SpecTree, SpecCss, SpecFind). *)

\* the calls of one operation the builder has received, in order
RECURSIVE CallsOf(_, _)
CallsOf(calls, op) ==
    IF calls = <<>> THEN <<>>
    ELSE (IF Head(calls).op = op THEN <<Head(calls)>> ELSE <<>>)
             \o CallsOf(Tail(calls), op)

Units == CallsOf(builder, "add_content")

Rank(op) ==
    CASE op = "metadata" -> 1
      [] op = "add_content" -> 2
      [] op = "stylesheet" -> 3
      [] op = "add_resource" -> 4
      [] op = "generate" -> 5

ChapterItems(book) == {i \in 1..Len(book) : IsChapter(book[i])}

\* the stages that ran to their end, read from where generate stands
ChaptersDone ==
    \/ pc \in {"stylesheet", "assets", "serialize", "done", "panicked"}
    \/ pc = "failed" /\ result.err \notin {"metadata", "render", "add_content"}

StylesheetRan ==
    \/ pc \in {"assets", "serialize", "done", "panicked"}
    \/ pc = "failed" /\ result.err \notin {"metadata", "render", "add_content"}

FindRan == assets # NotCalled

\* C3: the builder receives its calls in the order metadata, content units,
\* stylesheet, resources, generate; a call that fails is the last one it
\* receives; generate is called at most once, and only after every metadata
\* field, every chapter, the stylesheet and every asset was accepted; after a
\* failure of an earlier stage generate is never called.
C3_GenerateLast ==
    LET generates == CallsOf(builder, "generate")
    IN /\ \A i, j \in 1..Len(builder) :
            i < j => Rank(builder[i].op) <= Rank(builder[j].op) /\ builder[i].ok
       /\ Len(generates) <= 1
       /\ generates # <<>> =>
            /\ pc \in {"done", "failed"}
            /\ CallsOf(builder, "metadata") = MetadataCalls(ctx)
            /\ Len(Units) = Cardinality(ChapterItems(ctx.book))
            /\ generate_stylesheet(ctx).ok
            /\ Len(CallsOf(builder, "stylesheet")) = 1
            /\ assets.ok
            /\ Len(CallsOf(builder, "add_resource")) = Len(assets.val)
       /\ (pc = "failed" /\ result.err # "generate") => generates = <<>>
       /\ pc = "panicked" => generates = <<>>
       /\ pc = "done" <=> (generates # <<>> /\ generates[1].ok)
       /\ pc = "done" => result = Ok(<<>>)

\* the stylesheet was rejected by the builder: no asset is looked for, no
\* generate call is made
C3_Witness ==
    /\ pc = "failed"
    /\ result = Err("stylesheet")
    /\ Len(Units) = 2
    /\ Last(builder).op = "stylesheet" /\ ~Last(builder).ok
    /\ assets = NotCalled

\* the content unit of chapter i, as an index of Units (0 when there is none)
UnitsFor(i) ==
    {k \in 1..Len(Units) : Units[k].path = WithExtensionHtml(ctx.book[i].path)}

\* C6: the level of a chapter's content unit is the number of components of
\* its number minus one, 0 for a chapter without a number, and never negative.
C6_LevelFromNumber ==
    \A i \in ChapterItems(ctx.book) : \A k \in UnitsFor(i) :
        LET number == ctx.book[i].number
        IN /\ number.some => Units[k].level = Len(number.n) - 1
           /\ ~number.some => Units[k].level = 0
           /\ Units[k].level >= 0

\* a chapter numbered 1.1.1 at level 2 and a chapter without a number at 0
C6_Witness ==
    /\ \E k \in 1..Len(Units) :
          Units[k].title = <<"1", Dot, "1", Dot, "1", Dot, Space, "Chapter", "3">>
              /\ Units[k].level = 2
    /\ \E i \in ChapterItems(ctx.book) : \E k \in UnitsFor(i) :
          ~ctx.book[i].number.some /\ Units[k].level = 0

\* the chapters directly below item i, in document order
RECURSIVE InOrder(_)
InOrder(S) ==
    IF S = {} THEN <<>>
    ELSE LET m == CHOOSE x \in S : \A y \in S : x <= y
         IN <<m>> \o InOrder(S \ {m})

SubChapters(book, i) == InOrder({j \in ChapterItems(book) : book[j].parent = i})

\* C7: the child entries of a chapter's content unit are its direct
\* sub-chapters, one entry each with the sub-chapter's output path and title,
\* in the order of sub_items; other sub-items and deeper descendants give
\* no entry.
C7_ChildrenAreSubChapters ==
    \A i \in ChapterItems(ctx.book) : \A k \in UnitsFor(i) :
        LET subs == SubChapters(ctx.book, i)
        IN /\ Len(Units[k].children) = Len(subs)
           /\ \A c \in 1..Len(subs) :
                /\ Units[k].children[c].path = WithExtensionHtml(ctx.book[subs[c]].path)
                /\ Units[k].children[c].title = Display(ctx.book[subs[c]])

\* chapter 1 holds chapter 2 (which holds chapter 3) and chapter 4: two
\* child entries, for 2 and for 4
C7_Witness ==
    /\ Len(ctx.book) = 4
    /\ ctx.book[3].parent = 2 /\ IsChapter(ctx.book[3])
    /\ \E k \in UnitsFor(1) :
          /\ Len(Units[k].children) = 2
          /\ Units[k].children[1].path = <<"ch", "2", HtmlExt>>
          /\ Units[k].children[2].path = <<"ch", "4", HtmlExt>>

RECURSIVE Depth(_, _)
Depth(book, i) == IF book[i].parent = 0 THEN 0 ELSE 1 + Depth(book, book[i].parent)

RECURSIVE IsBelow(_, _, _)
IsBelow(book, d, a) ==
    d # 0 /\ (book[d].parent = a \/ (book[d].parent # 0 /\ IsBelow(book, book[d].parent, a)))

\* C9: once generate_chapters has succeeded the builder holds one content
\* unit for every chapter of the tree and none for any other item, every call
\* accepted; a chapter stands before its sub-chapters, and a chapter with all
\* that is below it stands before the items that follow it under the same
\* parent; the level of a unit is the depth of its chapter and its child
\* entries are the units of the chapters directly below it.
C9_OneUnitPerChapter ==
    ChaptersDone =>
        LET book == ctx.book
            pos(i) == CHOOSE k \in UnitsFor(i) : TRUE
        IN /\ \A k \in 1..Len(Units) : Units[k].ok
           /\ Len(Units) = Cardinality(ChapterItems(book))
           /\ \A i \in ChapterItems(book) : Cardinality(UnitsFor(i)) = 1
           /\ \A a, b \in ChapterItems(book) :
                /\ book[b].parent = a => pos(a) < pos(b)
                /\ (book[a].parent = book[b].parent /\ a < b) =>
                      /\ pos(a) < pos(b)
                      /\ \A d \in ChapterItems(book) :
                            IsBelow(book, d, a) => pos(d) < pos(b)
           /\ \A i \in ChapterItems(book) :
                /\ Units[pos(i)].level = Depth(book, i)
                /\ LET subs == SubChapters(book, i)
                   IN /\ Len(Units[pos(i)].children) = Len(subs)
                      /\ \A c \in 1..Len(subs) :
                            Units[pos(i)].children[c].path = Units[pos(subs[c])].path

\* chapter 3 lies below chapter 1 and chapter 2 follows chapter 1: the units
\* are those of 1, 3, 2
C9_Witness ==
    /\ pc = "done"
    /\ Len(ctx.book) = 3
    /\ ctx.book[3].parent = 1 /\ ctx.book[2].parent = 0
    /\ [k \in 1..Len(Units) |-> Units[k].path] =
           << <<"ch", "1", HtmlExt>>, <<"ch", "3", HtmlExt>>, <<"ch", "2", HtmlExt>> >>

Readable(path) == ~OpenFails(path) /\ ~ReadFails(path)

\* C8: the stylesheet handed to the builder is the built-in stylesheet, when
\* the flag is set, followed by the bytes of each additional stylesheet in
\* the configured order; with the flag off and no additional stylesheet it is
\* empty; when an additional stylesheet cannot be opened or read generation
\* fails and the builder receives no stylesheet.
C8_StylesheetConcatenated ==
    StylesheetRan =>
        LET css == ctx.additional_css
            sheets == CallsOf(builder, "stylesheet")
        IN IF \A k \in 1..Len(css) : Readable(css[k])
           THEN /\ Len(sheets) = 1
                /\ sheets[1].args =
                      (IF ctx.use_default_css THEN DEFAULT_CSS ELSE <<>>)
                          \o Flatten([k \in 1..Len(css) |-> CssBytes(css[k])])
                /\ (~ctx.use_default_css /\ css = <<>>) => sheets[1].args = <<>>
           ELSE /\ sheets = <<>>
                /\ pc = "failed"
                /\ result = Err("Unable to generate stylesheet")

C8_Witness ==
    /\ ctx.use_default_css
    /\ ctx.additional_css = <<"b.css", "a.css">>
    /\ \E k \in 1..Len(builder) :
          /\ builder[k].op = "stylesheet" /\ builder[k].ok
          /\ builder[k].args = <<"d1", "d2", "b1", "b2", "a1">>

\* the links assets_in_markdown finds in chapter i, and its directory
ChapterLinks(i) == FoundLinks(ctx.book[i].content)
DirOf(i) == ChapterDir(SrcDir, ctx.book[i])

SrcDirFound == Canonicalize(Push(PathBuf(ctx.root), ctx.src)) = SrcDir

\* C2: when a chapter of the tree holds a link that does not resolve, find
\* returns an error, no Asset is produced for any chapter and no resource
\* is handed to the builder.
C2_FailFast ==
    (FindRan /\ \E i \in ChapterItems(ctx.book) :
                    \E k \in 1..Len(ChapterLinks(i)) :
                        ~Resolves(DirOf(i), ChapterLinks(i)[k])) =>
        /\ ~assets.ok
        /\ assets # Panic
        /\ pc = "failed"
        /\ CallsOf(builder, "add_resource") = <<>>

\* the files the links of the chapters resolve to, chapter after chapter in
\* the order of Book::iter()
RECURSIVE ExpectedLocations(_)
ExpectedLocations(chapters) ==
    IF chapters = <<>> THEN <<>>
    ELSE LET i == Head(chapters)
         IN [k \in 1..Len(ChapterLinks(i)) |->
                Canonicalize(PushAll(PathBuf(DirOf(i)), Split(ChapterLinks(i)[k])))]
                \o ExpectedLocations(Tail(chapters))

\* C10: when every reference resolves, find returns one Asset for each
\* reference of each chapter, in the order of the chapters and of the
\* references, none dropped as a duplicate; location_on_disk is the source
\* root joined with filename; and add_resource is called once for each
\* Asset, in that order.
C10_OneAssetPerReference ==
    (FindRan /\ SrcDirFound
        /\ \A i \in ChapterItems(ctx.book) :
              \A k \in 1..Len(ChapterLinks(i)) :
                  Resolves(DirOf(i), ChapterLinks(i)[k])) =>
        LET expected == ExpectedLocations(ChaptersToAdd(ctx.book))
            loads == CallsOf(builder, "add_resource")
        IN /\ assets.ok
           /\ Len(assets.val) = Len(expected)
           /\ \A k \in 1..Len(expected) :
                /\ assets.val[k].location_on_disk = expected[k]
                /\ assets.val[k].location_on_disk = SrcDir \o assets.val[k].filename
           /\ pc \in {"serialize", "done"} =>
                /\ Len(loads) = Len(expected)
                /\ \A k \in 1..Len(expected) : loads[k].location = expected[k]

====
